---- MODULE Spec2Model ----
(***************************************************************************)
(* Model of the document ingestion / structured extraction server          *)
(* (src/server.js): the express handlers for upload, administrator upload, *)
(* record delete, re-analysis and the lab-value listing, the shared        *)
(* analyzeLabDataWithAI routine, and the PostgreSQL tables they act on.    *)
(*                                                                         *)
(* Every handler is an async function: it runs atomically between two      *)
(* awaits, and handlers of different requests interleave at the awaits.    *)
(* One action below is one such segment: the continuation of the previous  *)
(* await together with the single SQL statement / inference call / decoder *)
(* call it issues next.  No handler opens a transaction, so every SQL      *)
(* statement commits on its own.                                           *)
(***************************************************************************)
EXTENDS Integers, Sequences, FiniteSets, Bags, TLC

VARIABLES
    users,            \* ids of the rows of table users
    pdf_records,      \* rows of table pdf_records
    lab_values,       \* rows of table lab_values
    ai_lab_analysis,  \* rows of table ai_lab_analysis
    disk,             \* file names present in the upload directory
    seq,              \* the SERIAL counters and the stored-file-name counter
    apiKey,           \* CLAUDEAI_API_KEY is set (fixed for one server run)
    proc,             \* per in-flight request: position and local variables
    started,          \* number of requests accepted so far
    call              \* the last function / query call observed: its input and result

vars == <<users, pdf_records, lab_values, ai_lab_analysis, disk, seq, apiKey, proc, started, call>>

db == <<users, pdf_records, lab_values, ai_lab_analysis>>

(***************************************************************************)
(* Bounds                                                                  *)
(***************************************************************************)
NumProcs == 2       \* requests in flight at the same time
MaxFiles == 2       \* files in one upload batch of the model
MaxWork  == 3       \* requests accepted in one behaviour, a request that
                    \* stores the 2nd, 3rd, ... file counting once more per file

Procs == 1..NumProcs

(***************************************************************************)
(* Program constants and input domains                                     *)
(***************************************************************************)
AdminId    == 1                     \* the default admin user (role 'admin')
InitUsers  == {1, 2}                \* rows of users after initializeDatabase + one registration
UserIds    == {1, 2, 3}             \* ids a request may name; 3 has no row
MulterMaxFiles == 10                \* limits.files / upload.array('pdf', 10)

PDF   == "application/pdf"
DOCX  == "application/vnd.openxmlformats-officedocument.wordprocessingml.document"
PLAIN == "text/plain"

\* Optional values: <<>> is null/undefined, <<x>> is the value x.
Null == <<>>
Some(x) == <<x>>
IsPresent(o) == o # Null

(***************************************************************************)
(* Strings whose characters matter are sequences of one-character strings. *)
(* String.toLowerCase and String.includes work on them as in JavaScript.   *)
(***************************************************************************)
Lower(c) ==
    CASE c = "A" -> "a" [] c = "B" -> "b" [] c = "C" -> "c" [] c = "E" -> "e"
      [] c = "G" -> "g" [] c = "H" -> "h" [] c = "K" -> "k" [] c = "L" -> "l"
      [] c = "P" -> "p" [] c = "R" -> "r" [] OTHER -> c

ToLowerCase(s) == [i \in 1..Len(s) |-> Lower(s[i])]

Includes(s, sub) ==
    \E i \in 0..(Len(s) - Len(sub)) : SubSeq(s, i + 1, i + Len(sub)) = sub

(***************************************************************************)
(* Extracted text and the keyword lists of detectLabReport (three of the   *)
(* 48 lab keywords, three of the 28 medical keywords).                     *)
(***************************************************************************)
labKeywords == { <<"l","a","b">>, <<"l","o","w">>, <<"a","l","t">> }
medicalKeywords == { <<"b","p">>, <<"e","c","g">>, <<"e","k","g">> }

TextLab   == <<"L","a","b"," ","B","P">>
TextPlain == <<"b","p">>

\* a detectLabReport that compares the text as it is written
detectLabReportCaseSensitive(text) ==
    LET labMatches == {kw \in labKeywords : Includes(text, kw)}
        medicalMatches == {kw \in medicalKeywords : Includes(text, kw)}
    IN  Cardinality(labMatches) >= 1 \/ Cardinality(medicalMatches) >= 2

\* detectLabReport: at least one lab keyword or at least two medical keywords
\* occur in the lower-cased text
detectLabReport(text) ==
    LET textLower == ToLowerCase(text)
        labMatches == {kw \in labKeywords : Includes(textLower, kw)}
        medicalMatches == {kw \in medicalKeywords : Includes(textLower, kw)}
    IN  Cardinality(labMatches) >= 1 \/ Cardinality(medicalMatches) >= 2

(***************************************************************************)
(* Uploaded files as the client sends them: declared MIME type, whether    *)
(* the decoder (pdf-parse / mammoth) throws on the bytes, and the text the *)
(* decoder returns otherwise.                                              *)
(***************************************************************************)
GoodPdf    == [mimetype |-> PDF,   corrupt |-> FALSE, text |-> TextLab]
CorruptPdf == [mimetype |-> PDF,   corrupt |-> TRUE,  text |-> <<>>]
GoodDocx   == [mimetype |-> DOCX,  corrupt |-> FALSE, text |-> TextPlain]
TextFile   == [mimetype |-> PLAIN, corrupt |-> FALSE, text |-> TextPlain]

\* the request bodies of the model: req.files and req.body.record_type
\* ("" = no record_type sent, stored as NULL)
UploadInputs ==
    { [files |-> batch, record_type |-> "Blood Test"] :
          batch \in UNION { [1..n -> {GoodPdf, CorruptPdf}] : n \in 1..MaxFiles } }
    \cup
    { [files |-> << >>, record_type |-> "Blood Test"],
      [files |-> << GoodDocx >>, record_type |-> ""],
      [files |-> << GoodPdf, TextFile >>, record_type |-> "Blood Test"],
      [files |-> << TextFile, GoodPdf >>, record_type |-> "Blood Test"] }

\* multer fileFilter: only PDF and DOCX are let through
fileFilter(file) == file.mimetype = PDF \/ file.mimetype = DOCX

(***************************************************************************)
(* Entries of the arrays lab_tests_found / medical_measurements of a       *)
(* parsed inference payload.  "" is a missing string field, Null a         *)
(* missing/null value, BadDate a date string PostgreSQL cannot read as a   *)
(* TIMESTAMP.                                                              *)
(***************************************************************************)
BadDate == -1

LabEntry(name, cat, value, abn, date) ==
    [test_name |-> name, measurement_name |-> "", test_category |-> cat,
     measurement_category |-> "", value |-> value, is_abnormal |-> abn,
     test_date |-> date, measurement_date |-> Null]

MedEntry(name, cat, value, abn, date) ==
    [test_name |-> "", measurement_name |-> name, test_category |-> "",
     measurement_category |-> cat, value |-> value, is_abnormal |-> abn,
     test_date |-> Null, measurement_date |-> date]

\* Parsed payloads the inference service may answer with.  A missing array
\* or object is Null (the code reads it with `|| []`, `?.` or a ternary).
\* AnalysisA follows the schema of the prompt: its recommendations are those
\* of risk_assessment; AnalysisB has none there and a top-level array.
AnalysisA ==
    [document_summary |-> "A",
     risk_assessment |-> Some([overall_risk |-> "high", recommendations |-> << "retest" >>]),
     recommendations |-> Null,
     bloodwork_analysis |-> Some([chemicals |-> << "Glucose" >>]),
     lab_tests_found |-> Some(<< LabEntry("Glucose", "Diabetes", Some(5), TRUE, Some(2)) >>),
     medical_measurements |-> Some(<< MedEntry("Heart Rate", "Cardiac", Some(0), FALSE, Null) >>)]

AnalysisB ==
    [document_summary |-> "B",
     risk_assessment |-> Null,
     recommendations |-> Some(<< "rest" >>),
     bloodwork_analysis |-> Null,
     lab_tests_found |-> Some(<< LabEntry("Hemoglobin", "Hematology", Null, FALSE, Some(1)),
                                 LabEntry("Glucose", "Diabetes", Some(7), FALSE, Some(BadDate)),
                                 LabEntry("Sodium", "Chemistry", Some(3), FALSE, Some(1)) >>),
     medical_measurements |-> Null]

OrEmpty(o) == IF IsPresent(o) THEN o[1] ELSE <<>>

(***************************************************************************)
(* The inference service.  analyzeWithClaudeAI either throws (no key,      *)
(* transport failure, non-2xx status) or returns the raw response text, a  *)
(* sequence of characters.  "{" and "}" are themselves; every other        *)
(* character is commentary or payload.                                     *)
(***************************************************************************)
RawResponses ==
    { << "{", "a", "}" >>,
      << "S", "{", "a", "}" >>,
      << "{", "b", "}", "T" >>,
      << "S", "{", "b", "}", "T" >>,
      << "S", "a" >>,
      << "{", "a" >> }

AiError == << "!" >>      \* the call throws instead of returning text

AiOutcomes == RawResponses \cup {AiError}

\* String.indexOf / lastIndexOf, 0-based, -1 when absent
IndexOf(s, c) ==
    IF \E i \in 1..Len(s) : s[i] = c
    THEN (CHOOSE i \in 1..Len(s) : s[i] = c /\ \A j \in 1..(i-1) : s[j] # c) - 1
    ELSE -1

LastIndexOf(s, c) ==
    IF \E i \in 1..Len(s) : s[i] = c
    THEN (CHOOSE i \in 1..Len(s) : s[i] = c /\ \A j \in (i+1)..Len(s) : s[j] # c) - 1
    ELSE -1

\* String.substring(from) and String.substring(0, to), 0-based
SubstringFrom(s, from) == SubSeq(s, from + 1, Len(s))
SubstringTo(s, to) == SubSeq(s, 1, to)

\* a clean-up that removes the leading commentary only
CleanResponseHeadOnly(response) ==
    LET jsonStart == IndexOf(response, "{")
    IN  IF jsonStart > 0 THEN SubstringFrom(response, jsonStart) ELSE response

\* the response clean-up that precedes JSON.parse
CleanResponse(response) ==
    LET jsonStart == IndexOf(response, "{")
        r1 == IF jsonStart > 0 THEN SubstringFrom(response, jsonStart) ELSE response
        jsonEnd == LastIndexOf(r1, "}")
    IN  IF jsonEnd > 0 /\ jsonEnd < Len(r1) - 1 THEN SubstringTo(r1, jsonEnd + 1) ELSE r1

\* JSON.parse: Null when it throws
JsonParse(s) ==
    IF s = << "{", "a", "}" >> THEN Some(AnalysisA)
    ELSE IF s = << "{", "b", "}" >> THEN Some(AnalysisB)
    ELSE Null

\* what analyzeLabDataWithAI holds in `analysis` after the call: Null when the
\* call or the parse threw
ParsedAnalysis(outcome) ==
    IF outcome = AiError THEN Null ELSE JsonParse(CleanResponse(outcome))

(***************************************************************************)
(* Tables                                                                  *)
(***************************************************************************)
\* the lookup without its ownership condition
SelectRecordById(id, uid) == {r \in pdf_records : r.id = id}

\* SELECT * FROM pdf_records WHERE id = $1 AND user_id = $2
SelectOwnRecord(id, uid) == {r \in pdf_records : r.id = id /\ r.user_id = uid}

\* SELECT * FROM users WHERE id = $1
SelectUser(uid) == {u \in users : u = uid}

RecordRows(table, rid) == {row \in table : row.record_id = rid}

\* the row INSERT INTO lab_values builds from one entry
LabValueRow(id, userId, recordId, m) ==
    [id |-> id, user_id |-> userId, record_id |-> recordId,
     test_name |-> IF m.test_name # "" THEN m.test_name ELSE m.measurement_name,
     test_category |-> IF m.test_category # "" THEN m.test_category ELSE m.measurement_category,
     value |-> m.value,        \* REAL, nullable
     is_abnormal |-> m.is_abnormal,
     test_date |-> IF IsPresent(m.test_date) THEN m.test_date ELSE m.measurement_date,
     extraction_date |-> id,   \* DEFAULT CURRENT_TIMESTAMP: the clock is the insertion count
     confidence_score |-> 9]

\* PostgreSQL rejects the INSERT: test_name is NOT NULL, test_date is a TIMESTAMP
InsertThrows(row) == row.test_name = "" \/ row.test_date = Some(BadDate)

\* the row INSERT INTO ai_lab_analysis builds
AnalysisRow(id, userId, recordId, analysis) ==
    [id |-> id, user_id |-> userId, record_id |-> recordId,
     analysis_type |-> "comprehensive",
     summary |-> IF analysis.document_summary # "" THEN analysis.document_summary
                 ELSE "No summary available",
     lab_tests |-> OrEmpty(analysis.lab_tests_found),
     medical_measurements |-> OrEmpty(analysis.medical_measurements),
     bloodwork_analysis |-> OrEmpty(analysis.bloodwork_analysis),
     recommendations |-> OrEmpty(analysis.recommendations),
     risk_level |-> IF IsPresent(analysis.risk_assessment)
                    THEN analysis.risk_assessment[1].overall_risk ELSE "unknown",
     confidence_score |-> 9]

\* allMeasurements = [...lab_tests_found, ...medical_measurements]
AllMeasurements(analysis) ==
    OrEmpty(analysis.lab_tests_found) \o OrEmpty(analysis.medical_measurements)

\* a loop that inserts every entry, valued or not
NextEntry(ms, k) == IF k <= Len(ms) THEN k ELSE Len(ms) + 1

\* index of the first entry at or after k whose value is neither null nor
\* undefined; Len+1 when there is none (the for loop ends)
NextPresent(ms, k) ==
    IF \E i \in k..Len(ms) : IsPresent(ms[i].value)
    THEN CHOOSE i \in k..Len(ms) : IsPresent(ms[i].value)
                                   /\ \A j \in k..(i-1) : ~IsPresent(ms[j].value)
    ELSE Len(ms) + 1

(***************************************************************************)
(* Requests                                                                *)
(***************************************************************************)
NoResp == [status |-> 0, successful |-> 0, failed |-> 0, extracted_tests |-> 0, rows |-> {},
           total_lab_values |-> 0, by_category |-> {}, abnormal_count |-> 0]

Resp(status) == [NoResp EXCEPT !.status = status]

IdleProc ==
    [pc |-> "idle", kind |-> "", user |-> 0, owner |-> 0, record_type |-> "",
     files |-> <<>>, idx |-> 0, isLabReport |-> FALSE,
     recordId |-> 0, analysis |-> Null, k |-> 0,
     results |-> <<>>, errors |-> <<>>, resp |-> NoResp,
     \* history of the request, not read by the handlers
     seq0 |-> 0,             \* pdf_records_id_seq when the request arrived
     aiCalls |-> 0,          \* inference calls issued
     aiFailed |-> FALSE,     \* an analyzeLabDataWithAI call ended in its catch block
     removed |-> [lab_values |-> {}, ai_lab_analysis |-> {}, pdf_records |-> {}],
                             \* rows its DELETE statements removed
     stored |-> {},          \* lab_values rows its INSERT statements added
     overlapped |-> FALSE]   \* another re-analysis of the same record ran meanwhile

\* res.status(...).json(...): the handler has answered
Respond(l, resp) == [l EXCEPT !.pc = "done", !.resp = resp]

\* a request is taken by the first slot that is not busy with another one
Free(p) ==
    /\ proc[p].pc \in {"idle", "done"}
    /\ \A q \in Procs : q < p => proc[q].pc \notin {"idle", "done"}

\* what accepting a request that stores n files adds to `started`
Work(n) ==
    LET extra(k) == IF k > 1 THEN k - 1 ELSE 0
    IN  1 + extra(seq.file - 1 + n) - extra(seq.file - 1)

\* no function call observed
NoCall == [fn |-> "", input |-> Null, output |-> Null]

Init ==
    /\ users = InitUsers
    /\ pdf_records = {}
    /\ lab_values = {}
    /\ ai_lab_analysis = {}
    /\ disk = {}
    /\ seq = [pdf_records |-> 1, lab_values |-> 1, ai_lab_analysis |-> 1, file |-> 1]
    /\ apiKey \in BOOLEAN
    /\ proc = [p \in Procs |-> IdleProc]
    /\ started = 0
    /\ call = NoCall

(***************************************************************************)
(* POST /api/upload and POST /api/admin/upload                             *)
(***************************************************************************)
\* multer diskStorage: each file gets a fresh `${uuidv4()}-${originalname}`
StoredFiles(batch) ==
    [i \in 1..Len(batch) |->
        [filename |-> seq.file + i - 1, mimetype |-> batch[i].mimetype,
         corrupt |-> batch[i].corrupt, text |-> batch[i].text]]

\* upload.array('pdf', 10) lets the request through to the handler
MulterAccepts(batch) ==
    /\ Len(batch) <= MulterMaxFiles
    /\ \A i \in 1..Len(batch) : fileFilter(batch[i])

\* number of files of the request that multer leaves in the upload directory
StoredCount(kind, u, batch) ==
    IF (kind = "adminUpload" /\ u # AdminId) \/ ~MulterAccepts(batch) THEN 0 ELSE Len(batch)

\* the response after the for loop: 207 when some file failed, else 201
UploadRespond(l) ==
    Respond(l, [NoResp EXCEPT !.status = IF Len(l.errors) > 0 THEN 207 ELSE 201,
                              !.successful = Len(l.results),
                              !.failed = Len(l.errors)])

\* next iteration of `for (const file of req.files)`, or the response
UploadNextFile(l) ==
    IF l.idx < Len(l.files)
    THEN [l EXCEPT !.pc = "up_extract", !.idx = @ + 1, !.isLabReport = FALSE,
                   !.recordId = 0, !.analysis = Null, !.k = 0]
    ELSE UploadRespond(l)

\* a per-file catch that ends the loop instead of continuing it
UploadCatchAbort(l) ==
    UploadRespond([l EXCEPT !.errors = Append(@, l.files[l.idx].filename)])

\* the per-file catch: errors.push({filename, error, status: 'failed'})
UploadCatch(l) ==
    UploadNextFile([l EXCEPT !.errors = Append(@, l.files[l.idx].filename)])

\* results.push({filename, record_id, is_lab_report, status: 'success'})
UploadPush(l) ==
    UploadNextFile([l EXCEPT !.results =
        Append(@, [filename |-> l.files[l.idx].filename, record_id |-> l.recordId,
                   is_lab_report |-> l.isLabReport])])

\* the handler from its first line to its first await
UploadHandlerEntry(l, kind) ==
    IF Len(l.files) = 0 THEN Respond(l, Resp(400))
    ELSE IF kind = "adminUpload"
         THEN IF l.owner = 0 THEN Respond(l, Resp(400))
              ELSE [l EXCEPT !.pc = "au_user"]
         ELSE [l EXCEPT !.pc = "up_extract", !.idx = 1]

\* authenticateToken, (requireAdmin,) upload.array, then the handler
UploadStart(p, kind, u, target, batch, rt) ==
    /\ Free(p)
    /\ started + Work(StoredCount(kind, u, batch)) <= MaxWork
    /\ started' = started + Work(StoredCount(kind, u, batch))
    /\ LET l0 == [IdleProc EXCEPT !.kind = kind, !.user = u, !.owner = target,
                                  !.record_type = rt, !.seq0 = seq.pdf_records]
       IN  IF kind = "adminUpload" /\ u # AdminId
           THEN /\ proc' = [proc EXCEPT ![p] = Respond(l0, Resp(403))]
                /\ UNCHANGED <<disk, seq>>
           ELSE IF ~MulterAccepts(batch)
           THEN \* multer removes what it has written and passes the error on:
                \* the handler does not run, express answers 500
                /\ proc' = [proc EXCEPT ![p] =
                                Respond([l0 EXCEPT !.files = StoredFiles(batch)], Resp(500))]
                /\ UNCHANGED <<disk, seq>>
           ELSE /\ disk' = disk \cup {StoredFiles(batch)[i].filename : i \in 1..Len(batch)}
                /\ seq' = [seq EXCEPT !.file = @ + Len(batch)]
                /\ proc' = [proc EXCEPT ![p] =
                                UploadHandlerEntry([l0 EXCEPT !.files = StoredFiles(batch)], kind)]
    /\ UNCHANGED <<users, pdf_records, lab_values, ai_lab_analysis, apiKey, call>>

Upload(p) ==
    \E u \in users, body \in UploadInputs :
        UploadStart(p, "upload", u, u, body.files, body.record_type)

AdminUpload(p) ==
    \E u \in users, target \in UserIds \cup {0}, body \in UploadInputs :
        UploadStart(p, "adminUpload", u, target, body.files, body.record_type)

\* admin upload: SELECT * FROM users WHERE id = $1, 404 when there is no row
AdminUploadVerifyUser(p) ==
    /\ proc[p].pc = "au_user"
    /\ proc' = [proc EXCEPT ![p] =
                   IF SelectUser(@.owner) = {}
                   THEN Respond(@, Resp(404))
                   ELSE [@ EXCEPT !.pc = "up_extract", !.idx = 1]]
    /\ UNCHANGED <<users, pdf_records, lab_values, ai_lab_analysis, disk, seq, apiKey, started, call>>

\* pdfParse / mammoth.extractRawText on the current file, detectLabReport
UploadExtract(p) ==
    /\ proc[p].pc = "up_extract"
    /\ LET l == proc[p]
           file == l.files[l.idx]
       IN  proc' = [proc EXCEPT ![p] =
                IF file.corrupt THEN UploadCatch(l)
                ELSE [l EXCEPT !.isLabReport = detectLabReport(file.text),
                               !.pc = IF apiKey THEN "up_pdfai" ELSE "up_insert"]]
    /\ UNCHANGED <<users, pdf_records, lab_values, ai_lab_analysis, disk, seq, apiKey, started, call>>

\* pdfAnalysis = await analyzeWithClaudeAI(text.substring(0, 12000)), null when it throws
UploadPdfAnalysis(p) ==
    /\ proc[p].pc = "up_pdfai"
    /\ \E outcome \in {AiError, << "S" >>} :
          proc' = [proc EXCEPT ![p] = [@ EXCEPT !.aiCalls = @ + 1, !.pc = "up_insert"]]
    /\ UNCHANGED <<users, pdf_records, lab_values, ai_lab_analysis, disk, seq, apiKey, started, call>>

\* the row INSERT INTO pdf_records builds (lab_data_extracted DEFAULT FALSE)
PdfRecordRow(id, l) ==
    [id |-> id, user_id |-> l.owner, uploaded_by |-> l.user,
     filename |-> l.files[l.idx].filename, record_type |-> l.record_type,
     extracted_data |-> l.files[l.idx].text, is_lab_report |-> l.isLabReport,
     lab_data_extracted |-> FALSE]

\* INSERT INTO pdf_records ... RETURNING id
UploadInsertRecord(p) ==
    /\ proc[p].pc = "up_insert"
    /\ LET l == proc[p]
           id == seq.pdf_records
           l1 == [l EXCEPT !.recordId = id]
       IN  /\ pdf_records' = pdf_records \cup {PdfRecordRow(id, l)}
           /\ seq' = [seq EXCEPT !.pdf_records = @ + 1]
           /\ proc' = [proc EXCEPT ![p] =
                          IF apiKey THEN [l1 EXCEPT !.pc = "an_ai"] ELSE UploadPush(l1)]
    /\ UNCHANGED <<users, lab_values, ai_lab_analysis, disk, apiKey, started, call>>

(***************************************************************************)
(* analyzeLabDataWithAI(text, recordId, userId, recordType)                *)
(***************************************************************************)
\* extracted_tests: analysis?.lab_tests_found?.length || 0
ExtractedTests(analysis) ==
    IF IsPresent(analysis) THEN Len(OrEmpty(analysis[1].lab_tests_found)) ELSE 0

\* a caller in which a failed analysis reaches the per-file catch of the upload
AfterAnalysisThrowing(l, analysis) ==
    IF l.kind = "reanalyze"
    THEN Respond(l, [NoResp EXCEPT !.status = 200,
                                   !.extracted_tests = ExtractedTests(analysis)])
    ELSE IF IsPresent(analysis) THEN UploadPush(l) ELSE UploadCatch(l)

\* the caller's code after `await analyzeLabDataWithAI(...)` returned
\* `analysis` (Null for the null of the catch block)
AfterAnalysis(l, analysis) ==
    IF l.kind = "reanalyze"
    THEN Respond(l, [NoResp EXCEPT !.status = 200,
                                   !.extracted_tests = ExtractedTests(analysis)])
    ELSE UploadPush(l)

\* from the end of one INSERT INTO lab_values to the next await of the loop
AnalyzeLoop(l, k) ==
    LET ms == AllMeasurements(l.analysis[1])
        n == NextPresent(ms, k)
    IN  IF n <= Len(ms) THEN [l EXCEPT !.pc = "an_lv", !.k = n]
        ELSE [l EXCEPT !.pc = "an_mark", !.k = 0]

\* the history SELECT, the inference call, the clean-up and JSON.parse; a throw
\* lands in the catch block, which returns null
AnalyzeCall(p) ==
    /\ proc[p].pc = "an_ai"
    /\ \E outcome \in AiOutcomes :
          LET l == [proc[p] EXCEPT !.aiCalls = @ + 1]
              analysis == IF apiKey THEN ParsedAnalysis(outcome) ELSE Null
          IN  proc' = [proc EXCEPT ![p] =
                  IF IsPresent(analysis)
                  THEN [l EXCEPT !.analysis = analysis, !.pc = "an_store"]
                  ELSE AfterAnalysis([l EXCEPT !.aiFailed = TRUE], Null)]
    /\ UNCHANGED <<users, pdf_records, lab_values, ai_lab_analysis, disk, seq, apiKey, started, call>>

\* a schema without the two FOREIGN KEY clauses
NoForeignKeys(userId, recordId) == TRUE

\* FOREIGN KEY (user_id) REFERENCES users, (record_id) REFERENCES pdf_records
ForeignKeysHold(userId, recordId) ==
    /\ userId \in users
    /\ \E r \in pdf_records : r.id = recordId

\* the uploader's id handed over in place of the owner's
UploaderUserId(l) == l.user

\* the userId argument of analyzeLabDataWithAI: user_id of the form for an
\* administrator's upload, req.user.id for an own upload and a re-analysis
AnalysisUserId(l) == l.owner

\* INSERT INTO ai_lab_analysis; a rejected INSERT lands in the catch block
AnalyzeStore(p) ==
    /\ proc[p].pc = "an_store"
    /\ LET l == proc[p]
       IN  /\ seq' = [seq EXCEPT !.ai_lab_analysis = @ + 1]
           /\ IF ForeignKeysHold(AnalysisUserId(l), l.recordId)
              THEN /\ ai_lab_analysis' = ai_lab_analysis \cup
                          {AnalysisRow(seq.ai_lab_analysis, AnalysisUserId(l), l.recordId,
                                       l.analysis[1])}
                   /\ proc' = [proc EXCEPT ![p] = AnalyzeLoop(l, 1)]
              ELSE /\ UNCHANGED ai_lab_analysis
                   /\ proc' = [proc EXCEPT ![p] =
                                  AfterAnalysis([l EXCEPT !.aiFailed = TRUE], Null)]
    /\ UNCHANGED <<users, pdf_records, lab_values, disk, apiKey, started, call>>

\* an insert error that leaves the loop and reaches the outer catch block
InsertCatchAbort(l) == AfterAnalysis([l EXCEPT !.aiFailed = TRUE], Null)

\* catch (insertError): the error is logged and the loop goes on
InsertCatch(l) == AnalyzeLoop(l, l.k + 1)

\* INSERT INTO lab_values for one entry with a value; a rejected INSERT is
\* logged and skipped (it still consumes an id of the sequence)
AnalyzeInsertValue(p) ==
    /\ proc[p].pc = "an_lv"
    /\ LET l == proc[p]
           m == AllMeasurements(l.analysis[1])[l.k]
           row == LabValueRow(seq.lab_values, AnalysisUserId(l), l.recordId, m)
       IN  /\ seq' = [seq EXCEPT !.lab_values = @ + 1]
           /\ IF InsertThrows(row) \/ ~ForeignKeysHold(AnalysisUserId(l), l.recordId)
              THEN /\ UNCHANGED lab_values
                   /\ proc' = [proc EXCEPT ![p] = InsertCatch(l)]
              ELSE /\ lab_values' = lab_values \cup {row}
                   /\ proc' = [proc EXCEPT ![p] =
                                  AnalyzeLoop([l EXCEPT !.stored = @ \cup {row}], l.k + 1)]
    /\ UNCHANGED <<users, pdf_records, ai_lab_analysis, disk, apiKey, started, call>>

\* UPDATE pdf_records SET lab_data_extracted = TRUE WHERE id = $1; return analysis
AnalyzeMark(p) ==
    /\ proc[p].pc = "an_mark"
    /\ pdf_records' = {IF r.id = proc[p].recordId THEN [r EXCEPT !.lab_data_extracted = TRUE]
                       ELSE r : r \in pdf_records}
    /\ proc' = [proc EXCEPT ![p] = AfterAnalysis(@, @.analysis)]
    /\ UNCHANGED <<users, lab_values, ai_lab_analysis, disk, seq, apiKey, started, call>>

(***************************************************************************)
(* POST /api/lab-values/extract/:recordId                                  *)
(***************************************************************************)
InProgress(q) == proc[q].pc \notin {"idle", "done"}

Reanalyzing(q, rid) ==
    proc[q].kind = "reanalyze" /\ InProgress(q) /\ proc[q].recordId = rid

Reanalyze(p) ==
    /\ Free(p)
    /\ started + Work(0) <= MaxWork
    /\ started' = started + Work(0)
    /\ \E u \in users, rid \in 1..seq.pdf_records :
          LET found == SelectOwnRecord(rid, u)
              others == {q \in Procs \ {p} : Reanalyzing(q, rid)}
              l0 == [IdleProc EXCEPT !.kind = "reanalyze", !.user = u, !.owner = u,
                                     !.recordId = rid]
          IN  proc' = [q \in Procs |->
                  IF q = p
                  THEN IF found = {} THEN Respond(l0, Resp(404))
                       ELSE [l0 EXCEPT !.pc = "re_del_lv",
                                       !.record_type = (CHOOSE r \in found : TRUE).record_type,
                                       !.overlapped = (others # {})]
                  ELSE IF q \in others /\ found # {}
                       THEN [proc[q] EXCEPT !.overlapped = TRUE]
                       ELSE proc[q]]
    /\ UNCHANGED <<users, pdf_records, lab_values, ai_lab_analysis, disk, seq, apiKey, call>>

\* a re-analysis that leaves the old lab_values rows in place
ReanalyzeKeepValues(p) ==
    /\ proc[p].pc = "re_del_lv"
    /\ proc' = [proc EXCEPT ![p].pc = "re_del_an"]
    /\ UNCHANGED <<users, pdf_records, lab_values, ai_lab_analysis, disk, seq, apiKey, started, call>>

\* DELETE FROM lab_values WHERE record_id = $1
ReanalyzeDeleteValues(p) ==
    /\ proc[p].pc = "re_del_lv"
    /\ lab_values' = lab_values \ RecordRows(lab_values, proc[p].recordId)
    /\ proc' = [proc EXCEPT ![p] =
                   [@ EXCEPT !.pc = "re_del_an",
                             !.removed.lab_values = RecordRows(lab_values, proc[p].recordId)]]
    /\ UNCHANGED <<users, pdf_records, ai_lab_analysis, disk, seq, apiKey, started, call>>

\* DELETE FROM ai_lab_analysis WHERE record_id = $1, then the key test
ReanalyzeDeleteAnalysis(p) ==
    /\ proc[p].pc = "re_del_an"
    /\ ai_lab_analysis' = ai_lab_analysis \ RecordRows(ai_lab_analysis, proc[p].recordId)
    /\ LET l == [proc[p] EXCEPT
                     !.removed.ai_lab_analysis = RecordRows(ai_lab_analysis, proc[p].recordId)]
       IN  proc' = [proc EXCEPT ![p] =
                       IF apiKey THEN [l EXCEPT !.pc = "an_ai"] ELSE Respond(l, Resp(400))]
    /\ UNCHANGED <<users, pdf_records, lab_values, disk, seq, apiKey, started, call>>

(***************************************************************************)
(* DELETE /api/records/:recordId                                           *)
(***************************************************************************)
DeleteRecord(p) ==
    /\ Free(p)
    /\ started + Work(0) <= MaxWork
    /\ started' = started + Work(0)
    /\ \E u \in users, rid \in 1..seq.pdf_records :
          LET found == SelectOwnRecord(rid, u)
              l0 == [IdleProc EXCEPT !.kind = "delete", !.user = u, !.owner = u,
                                     !.recordId = rid]
          IN  proc' = [proc EXCEPT ![p] =
                  IF found = {} THEN Respond(l0, Resp(404))
                  ELSE [l0 EXCEPT !.pc = "del_lv",
                                  !.files = << [filename |-> (CHOOSE r \in found : TRUE).filename] >>]]
    /\ UNCHANGED <<users, pdf_records, lab_values, ai_lab_analysis, disk, seq, apiKey, call>>

\* DELETE /api/admin/records/:recordId: requireAdmin, then the lookup by id
\* alone; the three DELETE statements that follow are those of the owner's
\* delete
AdminDeleteRecord(p) ==
    /\ Free(p)
    /\ started + Work(0) <= MaxWork
    /\ started' = started + Work(0)
    /\ \E u \in users, rid \in 1..seq.pdf_records :
          LET found == {r \in pdf_records : r.id = rid}
              l0 == [IdleProc EXCEPT !.kind = "adminDelete", !.user = u, !.recordId = rid]
          IN  proc' = [proc EXCEPT ![p] =
                  IF u # AdminId THEN Respond(l0, Resp(403))
                  ELSE IF found = {} THEN Respond(l0, Resp(404))
                  ELSE [l0 EXCEPT !.pc = "del_lv",
                                  !.owner = (CHOOSE r \in found : TRUE).user_id,
                                  !.files = << [filename |-> (CHOOSE r \in found : TRUE).filename] >>]]
    /\ UNCHANGED <<users, pdf_records, lab_values, ai_lab_analysis, disk, seq, apiKey, call>>

DeleteRecordValues(p) ==
    /\ proc[p].pc = "del_lv"
    /\ lab_values' = lab_values \ RecordRows(lab_values, proc[p].recordId)
    /\ proc' = [proc EXCEPT ![p].pc = "del_an"]
    /\ UNCHANGED <<users, pdf_records, ai_lab_analysis, disk, seq, apiKey, started, call>>

DeleteRecordAnalysis(p) ==
    /\ proc[p].pc = "del_an"
    /\ ai_lab_analysis' = ai_lab_analysis \ RecordRows(ai_lab_analysis, proc[p].recordId)
    /\ proc' = [proc EXCEPT ![p].pc = "del_rec"]
    /\ UNCHANGED <<users, pdf_records, lab_values, disk, seq, apiKey, started, call>>

\* DELETE FROM pdf_records WHERE id = $1 (refused while a row of lab_values or
\* ai_lab_analysis references the record: 500), fs.unlinkSync, the response
DeleteRecordRow(p) ==
    /\ proc[p].pc = "del_rec"
    /\ LET rid == proc[p].recordId
       IN  IF RecordRows(lab_values, rid) # {} \/ RecordRows(ai_lab_analysis, rid) # {}
           THEN /\ proc' = [proc EXCEPT ![p] = Respond(@, Resp(500))]
                /\ UNCHANGED <<pdf_records, disk>>
           ELSE /\ pdf_records' = {r \in pdf_records : r.id # rid}
                /\ disk' = disk \ {proc[p].files[1].filename}
                /\ proc' = [proc EXCEPT ![p] = Respond(@, Resp(200))]
    /\ UNCHANGED <<users, lab_values, ai_lab_analysis, seq, apiKey, started, call>>

(***************************************************************************)
(* GET /api/lab-values                                                     *)
(***************************************************************************)
\* the SELECT without its WHERE user_id = $1
SelectAllLabValues(uid) == lab_values

\* SELECT ... FROM lab_values lv ... WHERE lv.user_id = $1
SelectLabValues(uid) == {row \in lab_values : row.user_id = uid}

ListLabValues(p) ==
    /\ Free(p)
    /\ started + Work(0) <= MaxWork
    /\ started' = started + Work(0)
    /\ \E u \in users :
          proc' = [proc EXCEPT ![p] =
              Respond([IdleProc EXCEPT !.kind = "list", !.user = u, !.owner = u],
                      [NoResp EXCEPT !.status = 200, !.rows = SelectLabValues(u)])]
    /\ UNCHANGED <<users, pdf_records, lab_values, ai_lab_analysis, disk, seq, apiKey, call>>

Next ==
    \E p \in Procs :
        \/ Upload(p)
        \/ AdminUpload(p)
        \/ AdminUploadVerifyUser(p)
        \/ UploadExtract(p)
        \/ UploadPdfAnalysis(p)
        \/ UploadInsertRecord(p)
        \/ AnalyzeCall(p)
        \/ AnalyzeStore(p)
        \/ AnalyzeInsertValue(p)
        \/ AnalyzeMark(p)
        \/ Reanalyze(p)
        \/ ReanalyzeDeleteValues(p)
        \/ ReanalyzeDeleteAnalysis(p)
        \/ DeleteRecord(p)
        \/ AdminDeleteRecord(p)
        \/ DeleteRecordValues(p)
        \/ DeleteRecordAnalysis(p)
        \/ DeleteRecordRow(p)
        \/ ListLabValues(p)

Spec == Init /\ [][Next]_vars

(***************************************************************************)
(* GET /api/lab-analytics/summary: four queries, one after the other       *)
(***************************************************************************)
RecentDays  == 30      \* extraction_date >= CURRENT_DATE - INTERVAL '30 days'
RecentLimit == 20      \* LIMIT 20

\* SELECT COUNT(*) as total FROM lab_values WHERE user_id = $1
SummaryTotal(uid) == Cardinality(SelectLabValues(uid))

\* SELECT test_category, COUNT(*) as count ... GROUP BY test_category
SummaryCategories(uid) ==
    { [test_category |-> c,
       count |-> Cardinality({row \in SelectLabValues(uid) : row.test_category = c})] :
          c \in {row.test_category : row \in SelectLabValues(uid)} }

\* SELECT COUNT(*) as count ... WHERE user_id = $1 AND is_abnormal = TRUE
SummaryAbnormal(uid) == Cardinality({row \in SelectLabValues(uid) : row.is_abnormal})

\* the rows of the last 30 days, newest extraction first, at most 20; the
\* clock is the insertion count
SummaryRecent(uid) ==
    LET recent == {row \in SelectLabValues(uid) :
                       row.extraction_date >= seq.lab_values - RecentDays}
    IN  {row \in recent :
            Cardinality({r \in recent : r.extraction_date > row.extraction_date}) < RecentLimit}

\* authenticateToken, then the query of the total
GetSummary(p) ==
    /\ Free(p)
    /\ started + Work(0) <= MaxWork
    /\ started' = started + Work(0)
    /\ \E u \in users :
          proc' = [proc EXCEPT ![p] =
              [IdleProc EXCEPT !.kind = "summary", !.user = u, !.owner = u, !.pc = "sum_cat",
                               !.resp = [NoResp EXCEPT !.total_lab_values = SummaryTotal(u)]]]
    /\ UNCHANGED <<users, pdf_records, lab_values, ai_lab_analysis, disk, seq, apiKey, call>>

GetSummaryCategories(p) ==
    /\ proc[p].pc = "sum_cat"
    /\ proc' = [proc EXCEPT ![p].pc = "sum_abn",
                            ![p].resp.by_category = SummaryCategories(proc[p].user)]
    /\ UNCHANGED <<users, pdf_records, lab_values, ai_lab_analysis, disk, seq, apiKey, started, call>>

GetSummaryAbnormal(p) ==
    /\ proc[p].pc = "sum_abn"
    /\ proc' = [proc EXCEPT ![p].pc = "sum_recent",
                            ![p].resp.abnormal_count = SummaryAbnormal(proc[p].user)]
    /\ UNCHANGED <<users, pdf_records, lab_values, ai_lab_analysis, disk, seq, apiKey, started, call>>

\* the query of the recent rows, then res.json
GetSummaryRecent(p) ==
    /\ proc[p].pc = "sum_recent"
    /\ proc' = [proc EXCEPT ![p] =
                    Respond(@, [@.resp EXCEPT !.status = 200,
                                              !.rows = SummaryRecent(proc[p].user)])]
    /\ UNCHANGED <<users, pdf_records, lab_values, ai_lab_analysis, disk, seq, apiKey, started, call>>

(***************************************************************************)
(* DELETE /api/admin/users/:userId                                         *)
(***************************************************************************)
\* rows of a table that belong to the user
UserRows(table, uid) == {row \in table : row.user_id = uid}

\* PostgreSQL refuses DELETE FROM pdf_records while a row of lab_values or
\* ai_lab_analysis references one of the rows to delete
RecordsReferenced(records) ==
    \E r \in records : RecordRows(lab_values, r.id) # {} \/ RecordRows(ai_lab_analysis, r.id) # {}

\* PostgreSQL refuses DELETE FROM users while a row of pdf_records (user_id or
\* uploaded_by), lab_values or ai_lab_analysis references the user
UserReferenced(uid) ==
    \/ \E r \in pdf_records : r.user_id = uid \/ r.uploaded_by = uid
    \/ UserRows(lab_values, uid) # {}
    \/ UserRows(ai_lab_analysis, uid) # {}

\* authenticateToken, requireAdmin, then DELETE FROM lab_values WHERE user_id = $1
DeleteUser(p) ==
    /\ Free(p)
    /\ started + Work(0) <= MaxWork
    /\ started' = started + Work(0)
    /\ \E u \in users, target \in UserIds :
          LET l0 == [IdleProc EXCEPT !.kind = "deleteUser", !.user = u, !.owner = target]
          IN  IF u # AdminId
              THEN /\ proc' = [proc EXCEPT ![p] = Respond(l0, Resp(403))]
                   /\ UNCHANGED lab_values
              ELSE /\ lab_values' = lab_values \ UserRows(lab_values, target)
                   /\ proc' = [proc EXCEPT ![p] =
                          [l0 EXCEPT !.pc = "du_rec",
                                     !.removed.lab_values = UserRows(lab_values, target)]]
    /\ UNCHANGED <<users, pdf_records, ai_lab_analysis, disk, seq, apiKey, call>>

\* DELETE FROM pdf_records WHERE user_id = $1; a refused DELETE lands in the
\* catch block: 500
DeleteUserRecords(p) ==
    /\ proc[p].pc = "du_rec"
    /\ LET records == UserRows(pdf_records, proc[p].owner)
       IN  IF RecordsReferenced(records)
           THEN /\ proc' = [proc EXCEPT ![p] = Respond(@, Resp(500))]
                /\ UNCHANGED pdf_records
           ELSE /\ pdf_records' = pdf_records \ records
                /\ proc' = [proc EXCEPT ![p].pc = "du_user",
                                        ![p].removed.pdf_records = records]
    /\ UNCHANGED <<users, lab_values, ai_lab_analysis, disk, seq, apiKey, started, call>>

\* DELETE FROM users WHERE id = $1; 404 when rowCount is 0
DeleteUserRow(p) ==
    /\ proc[p].pc = "du_user"
    /\ LET uid == proc[p].owner
       IN  IF UserReferenced(uid)
           THEN /\ proc' = [proc EXCEPT ![p] = Respond(@, Resp(500))]
                /\ UNCHANGED users
           ELSE /\ users' = users \ {uid}
                /\ proc' = [proc EXCEPT ![p] =
                               Respond(@, Resp(IF uid \in users THEN 200 ELSE 404))]
    /\ UNCHANGED <<pdf_records, lab_values, ai_lab_analysis, disk, seq, apiKey, started, call>>

(***************************************************************************)
(* The summary and the delete-user handlers next to single-file uploads    *)
(* and re-analyses                                                         *)
(***************************************************************************)
\* POST /api/upload with one decodable PDF
UploadOne(p) ==
    \E u \in users : UploadStart(p, "upload", u, u, << GoodPdf >>, "Blood Test")

OpsNext ==
    \E p \in Procs :
        \/ UploadOne(p)
        \/ UploadExtract(p)
        \/ UploadPdfAnalysis(p)
        \/ UploadInsertRecord(p)
        \/ AnalyzeCall(p)
        \/ AnalyzeStore(p)
        \/ AnalyzeInsertValue(p)
        \/ AnalyzeMark(p)
        \/ Reanalyze(p)
        \/ ReanalyzeDeleteValues(p)
        \/ ReanalyzeDeleteAnalysis(p)
        \/ DeleteRecord(p)
        \/ DeleteRecordValues(p)
        \/ DeleteRecordAnalysis(p)
        \/ DeleteRecordRow(p)
        \/ GetSummary(p)
        \/ GetSummaryCategories(p)
        \/ GetSummaryAbnormal(p)
        \/ GetSummaryRecent(p)
        \/ DeleteUser(p)
        \/ DeleteUserRecords(p)
        \/ DeleteUserRow(p)

OpsSpec == Init /\ [][OpsNext]_vars

(***************************************************************************)
(* Properties                                                              *)
(***************************************************************************)
IsUpload(p) == proc[p].kind \in {"upload", "adminUpload"}

Answered(p, kind) == proc[p].kind = kind /\ proc[p].pc = "done"

\* C1: a listing by the owner that runs while a re-analysis of record r is in
\* progress sees, of r, either every row the re-analysis found there and none
\* of its new rows, or all of its new rows and none of the old ones.
C1_ListingSeesOldOrNew ==
    [][\A p \in Procs, q \in Procs :
          (ListLabValues(p) /\ proc[q].kind = "reanalyze" /\ InProgress(q)
             /\ proc[q].user = proc'[p].user)
          => LET seen == RecordRows(proc'[p].resp.rows, proc[q].recordId)
                 old == proc[q].removed.lab_values
                 new == proc[q].stored
             IN  \/ old \subseteq seen /\ new \cap seen = {}
                 \/ /\ proc[q].pc = "an_mark"
                    /\ new \subseteq seen /\ old \cap seen = {}]_vars

\* C2: when a re-analysis of r that parsed an Analysis completes, and no other
\* re-analysis of r ran meanwhile, the lab_values rows of r are exactly the
\* rows this re-analysis stored.
C2_OnlyLatestRows ==
    [][\A p \in Procs :
          (AnalyzeMark(p) /\ proc[p].kind = "reanalyze" /\ ~proc[p].overlapped)
          => RecordRows(lab_values', proc[p].recordId) = proc[p].stored]_vars

\* C3: a re-analysis that answered without a parsed Analysis has deleted no
\* lab_values row and no ai_lab_analysis row.
C3_FailedReanalysisDeletesNothing ==
    \A p \in Procs :
        (Answered(p, "reanalyze") /\ ~IsPresent(proc[p].analysis))
        => proc[p].removed = IdleProc.removed

\* C4: a re-analysis whose inference call failed or whose response did not
\* parse answers with an error status, never with a success.
C4_FailedReanalysisAnswersError ==
    \A p \in Procs :
        (Answered(p, "reanalyze") /\ proc[p].aiFailed /\ ~IsPresent(proc[p].analysis))
        => proc[p].resp.status >= 400

\* C5: the count a successful re-analysis returns is the number of lab_values
\* rows it stored.
C5_CountIsStoredRows ==
    \A p \in Procs :
        (Answered(p, "reanalyze") /\ proc[p].resp.status = 200 /\ IsPresent(proc[p].analysis))
        => proc[p].resp.extracted_tests = Cardinality(proc[p].stored)

\* C6: a re-analysis or delete request naming a record that does not exist or
\* belongs to another user is answered 404 at once: it changes no row of
\* pdf_records, lab_values or ai_lab_analysis and issues no inference call.
C6_NotFoundTouchesNothing ==
    [][\A p \in Procs :
          ((Reanalyze(p) \/ DeleteRecord(p))
             /\ ~\E r \in pdf_records : r.id = proc'[p].recordId /\ r.user_id = proc'[p].user)
          => /\ proc'[p].pc = "done"
             /\ proc'[p].resp.status = 404
             /\ proc'[p].aiCalls = 0
             /\ proc'[p].removed = IdleProc.removed
             /\ <<pdf_records, lab_values, ai_lab_analysis>>'
                   = <<pdf_records, lab_values, ai_lab_analysis>>]_vars

C6_Witness ==
    \E p \in Procs :
        /\ proc[p].kind \in {"reanalyze", "delete"}
        /\ proc[p].pc = "done" /\ proc[p].resp.status = 404
        /\ \E r \in pdf_records : r.id = proc[p].recordId /\ r.user_id # proc[p].user
        /\ RecordRows(lab_values, proc[p].recordId) # {}

\* the files of a batch the decoder throws on / decodes, in batch order
CorruptNames(files) == SelectSeq([i \in 1..Len(files) |-> IF files[i].corrupt THEN files[i].filename ELSE 0], LAMBDA x : x # 0)
DecodedNames(files) == SelectSeq([i \in 1..Len(files) |-> IF files[i].corrupt THEN 0 ELSE files[i].filename], LAMBDA x : x # 0)

\* C7: the answer to a batch of N accepted files of which k fail text
\* extraction has successful + failed = N and failed = k; the failed entries
\* are the k corrupt files, the successful ones the others in batch order,
\* each with a record id created by this request and distinct from the
\* others; no pdf_records row exists for a failed file.
C7_BatchCounts ==
    \A p \in Procs :
        (IsUpload(p) /\ proc[p].pc = "done" /\ proc[p].resp.status \in {201, 207})
        => LET l == proc[p]
               N == Len(l.files)
               k == Len(CorruptNames(l.files))
           IN  /\ l.resp.successful + l.resp.failed = N
               /\ l.resp.failed = k
               /\ l.errors = CorruptNames(l.files)
               /\ [i \in 1..Len(l.results) |-> l.results[i].filename] = DecodedNames(l.files)
               /\ \A i \in 1..Len(l.results) :
                     /\ l.results[i].record_id >= l.seq0
                     /\ l.results[i].record_id < seq.pdf_records
                     /\ \A j \in 1..Len(l.results) :
                           i # j => l.results[i].record_id # l.results[j].record_id
                     /\ \A r \in pdf_records :
                           r.id = l.results[i].record_id => r.filename = l.results[i].filename
               /\ \A i \in 1..Len(l.errors) :
                     ~\E r \in pdf_records : r.filename = l.errors[i]

C7_Witness ==
    \E p \in Procs :
        /\ IsUpload(p) /\ proc[p].pc = "done"
        /\ Len(proc[p].files) = 2
        /\ proc[p].files[1].corrupt /\ ~proc[p].files[2].corrupt
        /\ proc[p].resp.successful = 1 /\ proc[p].resp.failed = 1
        /\ \E r \in pdf_records : r.id = proc[p].results[1].record_id

\* C8: a batch holding a file that is neither PDF nor DOCX is answered with a
\* per-file result: that file is reported failed, the other files are
\* processed and reported, and the answer is not the 500 of an error thrown
\* out of the handler.
C8_UnsupportedFileFailsAlone ==
    \A p \in Procs :
        (IsUpload(p) /\ proc[p].pc = "done"
           /\ \E i \in 1..Len(proc[p].files) : ~fileFilter(proc[p].files[i]))
        => /\ proc[p].resp.status = 207
           /\ proc[p].resp.successful + proc[p].resp.failed = Len(proc[p].files)
           /\ proc[p].resp.failed >= 1

\* C9: an administrator upload answered 404 (target owner has no users row)
\* has created no row and left no file of the batch in the upload directory.
C9_UnknownOwnerLeavesNoFile ==
    \A p \in Procs :
        (Answered(p, "adminUpload") /\ proc[p].resp.status = 404)
        => /\ \A i \in 1..Len(proc[p].files) : proc[p].files[i].filename \notin disk
           /\ \A i \in 1..Len(proc[p].files) :
                 ~\E r \in pdf_records : r.filename = proc[p].files[i].filename

\* C10: in an upload, the INSERT of the record persists the decoded text, the
\* declared type and the detectLabReport flag with lab_data_extracted unset;
\* and when the inference backend is not configured, the call fails or the
\* response does not parse, the file is reported as a success with that
\* record id and the step stores no ai_lab_analysis row, no lab_values row
\* and does not set lab_data_extracted.
C10_RecordSurvivesInferenceFailure ==
    [][\A p \in Procs :
          LET l == proc[p]
              file == l.files[l.idx]
              entry == [filename |-> file.filename, record_id |-> proc'[p].recordId,
                        is_lab_report |-> detectLabReport(file.text)]
          IN  /\ (IsUpload(p) /\ UploadInsertRecord(p))
                 => /\ \E r \in pdf_records' \ pdf_records :
                          /\ r.id = seq.pdf_records
                          /\ r.user_id = l.owner
                          /\ r.extracted_data = file.text
                          /\ r.record_type = l.record_type
                          /\ r.is_lab_report = detectLabReport(file.text)
                          /\ ~r.lab_data_extracted
                    /\ RecordRows(lab_values', seq.pdf_records) = {}
                    /\ RecordRows(ai_lab_analysis', seq.pdf_records) = {}
                    /\ ~apiKey => /\ proc'[p].results =
                                        Append(l.results, [entry EXCEPT !.record_id = seq.pdf_records])
                                  /\ proc'[p].errors = l.errors
              /\ (IsUpload(p) /\ AnalyzeCall(p) /\ proc'[p].pc # "an_store")
                 => /\ proc'[p].results =
                          Append(l.results, [entry EXCEPT !.record_id = l.recordId])
                    /\ proc'[p].errors = l.errors
                    /\ <<pdf_records, lab_values, ai_lab_analysis>>'
                          = <<pdf_records, lab_values, ai_lab_analysis>>]_vars

C10_Witness ==
    \E p \in Procs :
        /\ IsUpload(p) /\ proc[p].pc = "done" /\ proc[p].aiFailed
        /\ Len(proc[p].results) = 1
        /\ \E r \in pdf_records :
              /\ r.id = proc[p].results[1].record_id
              /\ ~r.lab_data_extracted
              /\ RecordRows(ai_lab_analysis, r.id) = {}
              /\ RecordRows(lab_values, r.id) = {}

(***************************************************************************)
(* Progress.  Every await on the database, the file system or a decoder    *)
(* resolves, so a handler waiting there takes its next step: weak fairness *)
(* of the server's own steps.  The two inference calls await node-fetch,   *)
(* which is given no timeout option and no abort signal: the continuation  *)
(* runs only when the service answers, so nothing makes those steps fair.  *)
(***************************************************************************)
ServerStep(p) ==
    \/ AdminUploadVerifyUser(p)
    \/ UploadExtract(p)
    \/ UploadInsertRecord(p)
    \/ AnalyzeStore(p)
    \/ AnalyzeInsertValue(p)
    \/ AnalyzeMark(p)
    \/ ReanalyzeDeleteValues(p)
    \/ ReanalyzeDeleteAnalysis(p)
    \/ DeleteRecordValues(p)
    \/ DeleteRecordAnalysis(p)
    \/ DeleteRecordRow(p)

LiveSpec == Spec /\ \A p \in Procs : WF_vars(ServerStep(p))

\* C11: every upload-batch request and every re-analysis request that the
\* server has accepted is eventually answered, also in behaviours where the
\* inference service never answers a call.
C11_EveryRequestAnswered ==
    \A p \in Procs :
        ((IsUpload(p) \/ proc[p].kind = "reanalyze") /\ InProgress(p))
            ~> (proc[p].pc = "done")

(***************************************************************************)
(* The functions and the read-only queries of the server, applied to       *)
(* inputs drawn from bounded sets.  `call` holds the last call: its name,  *)
(* its input and what it returned; a behaviour is one call.  The tables    *)
(* are any table of QueryTables and do not change.                         *)
(***************************************************************************)
MaxFragments == 3      \* fragments a text of the model is made of

TextFragments ==
    { <<"l","a">>, <<"b">>, <<"p">>, <<"L","A","B">>, <<"e","c","g">>,
      <<"E","K","G">>, <<"B","P">>, <<"x">> }

RECURSIVE Flatten(_)
Flatten(ss) == IF ss = <<>> THEN <<>> ELSE Head(ss) \o Flatten(Tail(ss))

Texts == UNION { { Flatten(f) : f \in [1..n -> TextFragments] } : n \in 0..MaxFragments }

\* pdf_records of the query model: two records of user 1 (the second with
\* no record_type), one of user 2
QueryRecord(id, uid, rt) ==
    [id |-> id, user_id |-> uid, uploaded_by |-> uid, filename |-> id,
     record_type |-> rt, extracted_data |-> TextLab, is_lab_report |-> TRUE,
     lab_data_extracted |-> TRUE]

QueryRecords ==
    { QueryRecord(1, 1, "Blood Test"), QueryRecord(2, 1, ""), QueryRecord(3, 2, "Blood Test") }

\* rows that analyses of these records may have stored
QueryRows ==
    { LabValueRow(1, 1, 2, MedEntry("Heart Rate", "Cardiac", Some(0), FALSE, Null)),
      LabValueRow(2, 1, 1, LabEntry("Glucose", "Diabetes", Some(5), TRUE, Some(3))),
      LabValueRow(3, 2, 3, LabEntry("Glucose", "Diabetes", Some(7), FALSE, Some(1))),
      LabValueRow(4, 1, 1, LabEntry("Glucose", "Diabetes", Some(6), FALSE, Some(4))) }

QueryTables == SUBSET QueryRows

FnInit ==
    /\ users = InitUsers
    /\ pdf_records = QueryRecords
    /\ lab_values \in QueryTables
    /\ ai_lab_analysis = {}
    /\ disk = {1, 2, 3}
    /\ seq = [pdf_records |-> 4, lab_values |-> 5, ai_lab_analysis |-> 1, file |-> 4]
    /\ apiKey = TRUE
    /\ proc = [p \in Procs |-> IdleProc]
    /\ started = 0
    /\ call = NoCall

\* a call reads the tables and changes nothing
Returns(fn, input, output) ==
    /\ call = NoCall
    /\ call' = [fn |-> fn, input |-> input, output |-> output]
    /\ UNCHANGED <<users, pdf_records, lab_values, ai_lab_analysis, disk, seq, apiKey,
                   proc, started>>

CallDetectLabReport ==
    \E text \in Texts : Returns("detectLabReport", text, detectLabReport(text))

MaxResponseLen == 5    \* characters of a raw inference response

ResponseChars == {"{", "}", "a", "S"}

Responses == UNION { [1..n -> ResponseChars] : n \in 1..MaxResponseLen }

\* analyzeLabDataWithAI from the returned response text to the value of
\* `analysis` (Null: JSON.parse threw, the catch block returns null)
CallCleanResponse ==
    \E response \in Responses :
        Returns("cleanResponse", response,
                [jsonResponse |-> CleanResponse(response),
                 analysis |-> ParsedAnalysis(response)])

\* the character budgets of the two inference requests
PdfAnalysisBudget == 12000     \* extractedText.substring(0, 12000), upload handlers
PromptTextBudget == 15000      \* text.substring(0, 15000), analyzeLabDataWithAI

\* a text stands for its length here
TextLengths ==
    {0, 1, 20000} \cup { b + d : b \in {PdfAnalysisBudget, PromptTextBudget}, d \in {-1, 0, 1} }

\* a substring that keeps the whole text
WholeLength(len, end) == len

\* length of text.substring(0, end) for a text of len characters
SubstringLength(len, end) == IF len < end THEN len ELSE end

\* the document text in the prompt of analyzeLabDataWithAI
CallAnalysisPrompt ==
    \E len \in TextLengths :
        Returns("analysisPrompt", len, SubstringLength(len, PromptTextBudget))

\* the document text sent by the upload handlers for pdf_analysis
CallPdfAnalysisPrompt ==
    \E len \in TextLengths :
        Returns("pdfAnalysisPrompt", len, SubstringLength(len, PdfAnalysisBudget))

\* the characters of the test names and URL segments of the query model
Chars(str) ==
    CASE str = "Glucose" -> <<"G","l","u","c","o","s","e">>
      [] str = "glucose" -> <<"g","l","u","c","o","s","e">>
      [] str = "Glu" -> <<"G","l","u">>
      [] str = "Heart Rate" -> <<"H","e","a","r","t"," ","R","a","t","e">>
      [] str = "rate" -> <<"r","a","t","e">>
      [] str = "grouped-trends" -> <<"g","r","o","u","p","e","d","-","t","r","e","n","d","s">>
      [] str = "test-names" -> <<"t","e","s","t","-","n","a","m","e","s">>

TrendQueries == {"Glucose", "glucose", "Glu", "rate"}

\* test_name LIKE '%' || q || '%': PostgreSQL compares the characters as they are
Like(name, q) == Includes(Chars(name), Chars(q))

\* a LIKE that ignores letter case (ILIKE)
ILike(name, q) == Includes(ToLowerCase(Chars(name)), ToLowerCase(Chars(q)))

\* ORDER BY on a nullable column: PostgreSQL sorts NULL as larger than every
\* value, so last with ASC and first with DESC
AscLess(x, y) == IsPresent(x) /\ (~IsPresent(y) \/ x[1] < y[1])
DescLess(x, y) == IsPresent(y) /\ (~IsPresent(x) \/ x[1] > y[1])

\* ORDER BY lv.test_date DESC, lv.extraction_date DESC
ListingPrecedes(a, b) ==
    \/ DescLess(a.test_date, b.test_date)
    \/ a.test_date = b.test_date /\ a.extraction_date >= b.extraction_date

\* ORDER BY lv.test_date ASC, lv.extraction_date ASC
TrendPrecedes(a, b) ==
    \/ AscLess(a.test_date, b.test_date)
    \/ a.test_date = b.test_date /\ a.extraction_date <= b.extraction_date

\* the row sequences a SELECT ... ORDER BY test_date dir, extraction_date dir
\* may return for the rows selected
OrderBy(rows, dir) ==
    { f \in [1..Cardinality(rows) -> rows] :
        \A i, j \in 1..Cardinality(rows) :
            i < j => /\ f[i] # f[j]
                     /\ IF dir = "DESC" THEN ListingPrecedes(f[i], f[j])
                                        ELSE TrendPrecedes(f[i], f[j]) }

\* LEFT JOIN pdf_records pr ON lv.record_id = pr.id: pr.record_type, "" for NULL
JoinedRecordType(row) ==
    IF \E r \in pdf_records : r.id = row.record_id
    THEN (CHOOSE r \in pdf_records : r.id = row.record_id).record_type
    ELSE ""

\* grouped[row.record_type]: a NULL record_type becomes the property name "null"
GroupKey(rt) == IF rt = "" THEN "null" ELSE rt

\* GET /api/lab-values
LabValuesHandler(uid) ==
    { [shape |-> "array", rows |-> f, leaves |-> {}, names |-> {}] :
          f \in OrderBy(SelectLabValues(uid), "DESC") }

\* GET /api/lab-values/:testName and GET /api/lab-values/trends/:testName
ByNameHandler(uid, testName) ==
    { [shape |-> "array", rows |-> f, leaves |-> {}, names |-> {}] :
          f \in OrderBy({row \in SelectLabValues(uid) : Like(row.test_name, testName)},
                        "ASC") }

\* GET /api/lab-values/grouped-trends: grouped[record_type][test_name] is the
\* array of the rows of that type and name, in the order of the SELECT
GroupedTrendsHandler(uid) ==
    LET rows == SelectLabValues(uid)
        keys == { <<GroupKey(JoinedRecordType(row)), row.test_name>> : row \in rows }
        leaf(key) == {row \in rows : /\ GroupKey(JoinedRecordType(row)) = key[1]
                                      /\ row.test_name = key[2]}
    IN  { [shape |-> "object", rows |-> <<>>, names |-> {},
           leaves |-> { [record_type |-> key[1], test_name |-> key[2],
                         rows |-> CHOOSE f \in OrderBy(leaf(key), "ASC") : TRUE] :
                        key \in keys }] }

\* GET /api/lab-values/test-names: SELECT DISTINCT test_name, test_category,
\* COUNT(*) ... GROUP BY test_name, test_category (the rows as a set)
TestNamesHandler(uid) ==
    { [shape |-> "array", rows |-> <<>>, leaves |-> {},
       names |-> { [test_name |-> k[1], test_category |-> k[2],
                    count |-> Cardinality({row \in SelectLabValues(uid) :
                                  row.test_name = k[1] /\ row.test_category = k[2]})] :
                   k \in { <<row.test_name, row.test_category>> : row \in SelectLabValues(uid) } }] }

\* the GET routes below /api/lab-values in the order app.get registers them;
\* Param is a `:name` segment
Param == ":"

Routes ==
    << [path |-> <<"api", "lab-values">>, handler |-> "labValues"],
       [path |-> <<"api", "lab-values", Param>>, handler |-> "byName"],
       [path |-> <<"api", "lab-values", "category", Param>>, handler |-> "byCategory"],
       [path |-> <<"api", "lab-values", "trends", Param>>, handler |-> "trends"],
       [path |-> <<"api", "lab-values", "test-names">>, handler |-> "testNames"],
       [path |-> <<"api", "lab-values", "grouped-trends">>, handler |-> "groupedTrends"] >>

Matches(pattern, path) ==
    /\ Len(pattern) = Len(path)
    /\ \A i \in 1..Len(pattern) : pattern[i] = Param \/ pattern[i] = path[i]

\* express runs the first registered route that matches
Dispatch(path) ==
    Routes[CHOOSE i \in 1..Len(Routes) :
               /\ Matches(Routes[i].path, path)
               /\ \A j \in 1..(i-1) : ~Matches(Routes[j].path, path)]

\* req.params of the route's one parameter
ParamOf(route, path) == path[CHOOSE i \in 1..Len(path) : route.path[i] = Param]

\* the bodies the server may answer GET path with, for the caller uid
HttpGet(uid, path) ==
    LET route == Dispatch(path)
        bodies ==
            CASE route.handler = "labValues" -> LabValuesHandler(uid)
              [] route.handler \in {"byName", "trends"} ->
                     ByNameHandler(uid, ParamOf(route, path))
              [] route.handler = "testNames" -> TestNamesHandler(uid)
              [] route.handler = "groupedTrends" -> GroupedTrendsHandler(uid)
    IN  { [handler |-> route.handler, shape |-> b.shape, rows |-> b.rows, leaves |-> b.leaves,
           names |-> b.names] : b \in bodies }

GetLabValues ==
    \E u \in users : \E body \in HttpGet(u, <<"api", "lab-values">>) :
        Returns("GET /api/lab-values", [user |-> u, testName |-> ""], body)

GetLabValuesByName ==
    \E u \in users, q \in TrendQueries : \E body \in HttpGet(u, <<"api", "lab-values", q>>) :
        Returns("GET /api/lab-values/:testName", [user |-> u, testName |-> q], body)

GetLabTrends ==
    \E u \in users, q \in TrendQueries :
        \E body \in HttpGet(u, <<"api", "lab-values", "trends", q>>) :
            Returns("GET /api/lab-values/trends/:testName", [user |-> u, testName |-> q], body)

GetGroupedTrends ==
    \E u \in users : \E body \in HttpGet(u, <<"api", "lab-values", "grouped-trends">>) :
        Returns("GET /api/lab-values/grouped-trends", [user |-> u, testName |-> ""], body)

\* text.split(/\s+/).length: one more than the number of whitespace runs
WordCount(text) ==
    1 + Cardinality({i \in 1..Len(text) : text[i] = " " /\ (i = 1 \/ text[i-1] # " ")})

\* `pool.query(...)` without await is a Promise: its `rows` property is
\* undefined
UnawaitedRows(rows) == Null

\* GET /api/analyze/:id: reading [0] of undefined throws a TypeError inside
\* the try block, and the catch block answers 404
AnalyzeRecordHandler(uid, id) ==
    LET rows == UnawaitedRows(SelectOwnRecord(id, uid))
    IN  IF ~IsPresent(rows) THEN [status |-> 404, wordCount |-> 0, characterCount |-> 0]
        ELSE IF rows[1] = {} THEN [status |-> 404, wordCount |-> 0, characterCount |-> 0]
        ELSE LET text == (CHOOSE r \in rows[1] : TRUE).extracted_data
             IN  [status |-> 200, wordCount |-> WordCount(text), characterCount |-> Len(text)]

GetAnalyze ==
    \E u \in users, id \in 1..seq.pdf_records :
        Returns("GET /api/analyze/:id", [user |-> u, id |-> id], AnalyzeRecordHandler(u, id))

GetTestNames ==
    \E u \in users : \E body \in HttpGet(u, <<"api", "lab-values", "test-names">>) :
        Returns("GET /api/lab-values/test-names", [user |-> u, testName |-> ""], body)

\* GET /api/lab-analytics/summary where nothing writes between its queries
GetLabSummary ==
    \E u \in users :
        Returns("GET /api/lab-analytics/summary", [user |-> u, testName |-> ""],
                [handler |-> "summary", total_lab_values |-> SummaryTotal(u),
                 by_category |-> SummaryCategories(u), abnormal_count |-> SummaryAbnormal(u),
                 recent_trends |-> SummaryRecent(u)])

FnNext ==
    \/ GetAnalyze
    \/ GetLabValues
    \/ GetTestNames
    \/ GetLabSummary
    \/ GetLabValuesByName
    \/ GetLabTrends
    \/ GetGroupedTrends
    \/ CallDetectLabReport
    \/ CallCleanResponse
    \/ CallAnalysisPrompt
    \/ CallPdfAnalysisPrompt

FnSpec == FnInit /\ [][FnNext]_vars

\* kw occurs in text as a substring, letter case ignored
OccursIgnoringCase(text, kw) ==
    \E i \in 1..Len(text) :
        /\ i + Len(kw) - 1 <= Len(text)
        /\ \A j \in 1..Len(kw) : Lower(text[i + j - 1]) = Lower(kw[j])

LabKeywordsIn(text) == {kw \in labKeywords : OccursIgnoringCase(text, kw)}
MedicalKeywordsIn(text) == {kw \in medicalKeywords : OccursIgnoringCase(text, kw)}

\* C12: detectLabReport returns true exactly when at least one lab keyword
\* or at least two distinct medical keywords occur in the text as
\* substrings, letter case ignored.
C12_ClassifierThreshold ==
    call.fn = "detectLabReport"
    => (call.output <=> \/ LabKeywordsIn(call.input) # {}
                        \/ \E k1, k2 \in MedicalKeywordsIn(call.input) : k1 # k2)

\* a text written partly in capitals with two medical keywords and no lab
\* keyword was classified true
C12_Witness ==
    /\ call.fn = "detectLabReport"
    /\ call.input # ToLowerCase(call.input)
    /\ LabKeywordsIn(call.input) = {}
    /\ Cardinality(MedicalKeywordsIn(call.input)) >= 2
    /\ call.output = TRUE

\* positions (1-based) of the first "{" and the last "}" of s
FirstOpen(s) == CHOOSE i \in 1..Len(s) : s[i] = "{" /\ \A j \in 1..(i-1) : s[j] # "{"
LastClose(s) == CHOOSE i \in 1..Len(s) : s[i] = "}" /\ \A j \in (i+1)..Len(s) : s[j] # "}"

BraceDelimited(s) ==
    \E i, j \in 1..Len(s) : i < j /\ s[i] = "{" /\ s[j] = "}"

\* C13: for a raw response that holds a "{" followed later by a "}", the
\* text handed to JSON.parse is the substring from the first "{" to the
\* last "}" inclusive; when that substring does not parse there is no
\* analysis, so no Analysis row is built from it.
C13_ParsesBraceSubstring ==
    (call.fn = "cleanResponse" /\ BraceDelimited(call.input))
    => LET sub == SubSeq(call.input, FirstOpen(call.input), LastClose(call.input))
       IN  /\ call.output.jsonResponse = sub
           /\ call.output.analysis = JsonParse(sub)
           /\ (JsonParse(sub) = Null => ~IsPresent(call.output.analysis))

\* a response with commentary before and after the payload was parsed
C13_Witness ==
    /\ call.fn = "cleanResponse"
    /\ BraceDelimited(call.input)
    /\ FirstOpen(call.input) > 1
    /\ LastClose(call.input) < Len(call.input)
    /\ IsPresent(call.output.analysis)

IsPromptCall == call.fn \in {"analysisPrompt", "pdfAnalysisPrompt"}

\* C14 as stated: the document text of every inference request is the
\* extracted text cut to 12,000 characters, so none carries more.
C14_TwelveThousandBudget ==
    IsPromptCall
    => /\ call.output <= 12000
       /\ call.output = (IF call.input < 12000 THEN call.input ELSE 12000)

\* C14: the document text of the structured-extraction request is the
\* extracted text cut to 15,000 characters and that of the upload's
\* pdf_analysis request is cut to 12,000 characters; no inference request
\* carries more than 15,000 characters of document text.
C14_FixedBudgets ==
    IsPromptCall
    => /\ call.output <= 15000
       /\ call.output <= call.input
       /\ call.fn = "analysisPrompt"
             => call.output = (IF call.input < 15000 THEN call.input ELSE 15000)
       /\ call.fn = "pdfAnalysisPrompt"
             => call.output = (IF call.input < 12000 THEN call.input ELSE 12000)

\* a text longer than the budget was cut for the structured-extraction request
C14_Witness ==
    /\ call.fn = "analysisPrompt"
    /\ call.input > 15000
    /\ call.output = 15000

(***************************************************************************)
(* Normalization (analyzeLabDataWithAI after the parse) and record delete, *)
(* checked under Spec                                                      *)
(***************************************************************************)
RecordExists(rid) == \E r \in pdf_records : r.id = rid

\* the entries of the run of p that the table accepts: a value is present
\* and the row built from the entry is well-formed
ValidEntries(l) ==
    LET ms == AllMeasurements(l.analysis[1])
    IN  {i \in 1..Len(ms) : /\ IsPresent(ms[i].value)
                            /\ ~InsertThrows(LabValueRow(0, l.owner, l.recordId, ms[i]))}

MalformedEntries(l) ==
    LET ms == AllMeasurements(l.analysis[1])
    IN  {i \in 1..Len(ms) : /\ IsPresent(ms[i].value)
                            /\ InsertThrows(LabValueRow(0, l.owner, l.recordId, ms[i]))}

\* the rows the run of p has stored for its current record
StoredForRecord(l) == {row \in l.stored : row.record_id = l.recordId}

\* row is the row of entry m, whatever id it got
IsRowOf(row, l, m) == row = LabValueRow(row.id, l.owner, l.recordId, m)

C16_BadEntrySkipped ==
    [][\A p \in Procs :
          /\ (/\ AnalyzeInsertValue(p)
              /\ proc[p].k \in MalformedEntries(proc[p]))
             => /\ lab_values' = lab_values
                /\ proc'[p].pc \in {"an_lv", "an_mark"}
                /\ proc'[p].aiFailed = proc[p].aiFailed
          /\ (/\ AnalyzeMark(p)
              /\ MalformedEntries(proc[p]) # {}
              /\ RecordExists(proc[p].recordId))
             => /\ \A i \in ValidEntries(proc[p]) :
                       \E row \in StoredForRecord(proc[p]) :
                           IsRowOf(row, proc[p], AllMeasurements(proc[p].analysis[1])[i])
                /\ \A r \in pdf_records' :
                       r.id = proc[p].recordId => r.lab_data_extracted
      ]_vars

\* a record is marked after a run in which the entry before a stored one
\* was rejected
C16_Witness ==
    \E p \in Procs, r \in pdf_records :
        /\ proc[p].pc = "done"
        /\ proc[p].analysis = Some(AnalysisB)
        /\ r.id = proc[p].recordId /\ r.lab_data_extracted
        /\ \E row \in lab_values :
               /\ row.record_id = r.id /\ row.test_name = "Sodium"
               /\ row.id > 1
        /\ ~\E row \in lab_values : row.record_id = r.id /\ row.test_name = "Glucose"

\* C17: every lab_values row and every ai_lab_analysis row references a
\* pdf_records row that exists, in every state; and after a delete (by the
\* owner or by the administrator) has answered success, the record is gone
\* and no row references it.
C17_NoDanglingReference ==
    /\ \A row \in lab_values : RecordExists(row.record_id)
    /\ \A row \in ai_lab_analysis : RecordExists(row.record_id)
    /\ \A p \in Procs :
          (/\ proc[p].kind \in {"delete", "adminDelete"}
           /\ proc[p].pc = "done"
           /\ proc[p].resp.status = 200)
          => /\ ~RecordExists(proc[p].recordId)
             /\ RecordRows(lab_values, proc[p].recordId) = {}
             /\ RecordRows(ai_lab_analysis, proc[p].recordId) = {}

\* a delete succeeded while a re-analysis of the same record was running,
\* and the re-analysis could not store its analysis
C17_Witness ==
    \E p, q \in Procs :
        /\ proc[p].kind \in {"delete", "adminDelete"}
        /\ proc[p].pc = "done" /\ proc[p].resp.status = 200
        /\ proc[q].kind = "reanalyze" /\ proc[q].recordId = proc[p].recordId
        /\ proc[q].pc = "done"
        /\ IsPresent(proc[q].analysis) /\ proc[q].aiFailed

\* ---------------------------------------------------------------------
\* Flat listing, by-name trend and grouped trend queries
\* ---------------------------------------------------------------------

\* the observation date when the document supplied one, else the extraction
\* timestamp
EffectiveDate(row) == IF IsPresent(row.test_date) THEN row.test_date[1] ELSE row.extraction_date

\* the rows a response body carries, array elements and group leaves alike,
\* as the bag of their occurrences
RECURSIVE SeqBag(_)
SeqBag(rows) == IF rows = <<>> THEN EmptyBag ELSE SetToBag({Head(rows)}) (+) SeqBag(Tail(rows))

RECURSIVE LeavesBag(_)
LeavesBag(leaves) ==
    IF leaves = {} THEN EmptyBag
    ELSE LET leaf == CHOOSE l \in leaves : TRUE
         IN  SeqBag(leaf.rows) (+) LeavesBag(leaves \ {leaf})

BodyRows(body) == SeqBag(body.rows) (+) LeavesBag(body.leaves)

\* C18: the flat listing returns the caller's measurements most recent first
\* by effective date, the observation date when present and otherwise the
\* extraction timestamp.
C18_ListingByEffectiveDate ==
    call.fn = "GET /api/lab-values" =>
        LET rows == call.output.rows
        IN  /\ SeqBag(rows) = SetToBag(SelectLabValues(call.input.user))
            /\ \A i, j \in 1..Len(rows) :
                   i < j => EffectiveDate(rows[i]) >= EffectiveDate(rows[j])

\* C19: a by-name trend query returns exactly the caller's measurements whose
\* test name contains the query string, letter case ignored, in ascending
\* date order.
C19_TrendMatchesIgnoringCase ==
    call.fn \in {"GET /api/lab-values/:testName", "GET /api/lab-values/trends/:testName"} =>
        LET rows == call.output.rows
        IN  /\ SeqBag(rows) =
                   SetToBag({row \in SelectLabValues(call.input.user) :
                                 ILike(row.test_name, call.input.testName)})
            /\ \A i, j \in 1..Len(rows) : i < j => TrendPrecedes(rows[i], rows[j])

\* C20: the measurements of the grouped-trend response, its (type, name)
\* leaves flattened, are exactly the caller's measurements of the flat
\* listing, each once, records without a declared type included.
C20_GroupedTrendsPreserveRows ==
    call.fn = "GET /api/lab-values/grouped-trends" =>
        BodyRows(call.output) = SetToBag(SelectLabValues(call.input.user))

\* ---------------------------------------------------------------------
\* Summary
\* ---------------------------------------------------------------------
RECURSIVE SumCounts(_)
SumCounts(groups) ==
    IF groups = {} THEN 0
    ELSE LET g == CHOOSE x \in groups : TRUE
         IN  g.count + SumCounts(groups \ {g})

\* C21: every summary response is computed from one snapshot of the caller's
\* measurements, also next to concurrent writers: its total is the sum of its
\* per-category counts and its abnormal count does not exceed its total.
C21_SummaryFromOneSnapshot ==
    \A p \in Procs :
        Answered(p, "summary")
        => /\ proc[p].resp.total_lab_values = SumCounts(proc[p].resp.by_category)
           /\ proc[p].resp.abnormal_count <= proc[p].resp.total_lab_values

\* ---------------------------------------------------------------------
\* Owner scoping of the queries
\* ---------------------------------------------------------------------
\* the measurements whose owner is uid
OwnedBy(uid) == {row \in lab_values : row.user_id = uid}

TrendCalls == {"GET /api/lab-values/:testName", "GET /api/lab-values/trends/:testName"}

\* C22: what the flat listing, the by-name trend, the grouped trend and the
\* summary return or count for caller u is made of rows owned by u and is
\* determined by the rows owned by u alone, whatever rows other owners have.
C22_QueriesScopedToCaller ==
    /\ call.fn = "GET /api/lab-values"
           => SeqBag(call.output.rows) = SetToBag(OwnedBy(call.input.user))
    /\ call.fn \in TrendCalls
           => SeqBag(call.output.rows) =
                  SetToBag({row \in OwnedBy(call.input.user) :
                                Like(row.test_name, call.input.testName)})
    /\ call.fn = "GET /api/lab-values/grouped-trends"
           => BagToSet(BodyRows(call.output)) \subseteq OwnedBy(call.input.user)
    /\ call.fn = "GET /api/lab-analytics/summary"
           => LET own == OwnedBy(call.input.user)
              IN  /\ call.output.total_lab_values = Cardinality(own)
                  /\ SumCounts(call.output.by_category) = Cardinality(own)
                  /\ call.output.abnormal_count = Cardinality({row \in own : row.is_abnormal})
                  /\ call.output.recent_trends \subseteq own
    /\ \A u \in users : \A body \in GroupedTrendsHandler(u) :
           BagToSet(LeavesBag(body.leaves)) = OwnedBy(u)

\* a query of user 1 that returned rows while user 2 owns rows too
C22_Witness ==
    /\ call.fn \in TrendCalls \cup {"GET /api/lab-values", "GET /api/lab-analytics/summary"}
    /\ OwnedBy(call.input.user) # {}
    /\ \E row \in lab_values : row.user_id # call.input.user
    /\ call.fn = "GET /api/lab-analytics/summary" => call.output.total_lab_values > 0
    /\ call.fn # "GET /api/lab-analytics/summary" => call.output.rows # <<>>

\* ---------------------------------------------------------------------
\* Owner of a measurement
\* ---------------------------------------------------------------------
\* C23: in every reachable state each lab_values row carries the owner id of
\* the record it references, also when an administrator uploaded the record
\* for another user.
C23_RowOwnerIsRecordOwner ==
    \A row \in lab_values :
        \E r \in pdf_records : r.id = row.record_id /\ r.user_id = row.user_id

\* a measurement of a record that the administrator uploaded for another user
C23_Witness ==
    \E row \in lab_values : \E r \in pdf_records :
        /\ r.id = row.record_id
        /\ r.uploaded_by # r.user_id
        /\ row.user_id = r.user_id

\* ---------------------------------------------------------------------
\* Analyses of a record
\* ---------------------------------------------------------------------
\* C24: in every reachable state a record has at most one ai_lab_analysis
\* row, also when re-analyses of the record interleave.
C24_AtMostOneAnalysis ==
    \A r \in pdf_records : Cardinality(RecordRows(ai_lab_analysis, r.id)) <= 1

\* requests were served one after the other so far: the first slot took them
\* all
Sequential == \A q \in Procs \ {1} : proc[q].pc = "idle"

\* C25: when requests run one after the other, a re-analysis leaves for its
\* record exactly one lab_values row per well-formed valued entry of the
\* response it parsed and no other row, so a second re-analysis with the same
\* response leaves as many rows as the first and no two rows stem from the
\* same entry.
C25_ReanalysisIdempotent ==
    [][(AnalyzeMark(1) /\ proc[1].kind = "reanalyze" /\ Sequential)
          => LET l == proc[1]
                 ms == AllMeasurements(l.analysis[1])
                 rows == RecordRows(lab_values', l.recordId)
             IN  /\ Cardinality(rows) = Cardinality(ValidEntries(l))
                 /\ \A i \in ValidEntries(l) :
                        Cardinality({row \in rows : IsRowOf(row, l, ms[i])}) = 1]_vars

\* the second of two re-analyses in a row has completed and stored rows: three
\* analyses were stored, the upload's and one per re-analysis
C25_Witness ==
    /\ Sequential
    /\ Answered(1, "reanalyze")
    /\ IsPresent(proc[1].analysis)
    /\ seq.ai_lab_analysis = 4
    /\ RecordRows(lab_values, proc[1].recordId) # {}

\* C29: when no request is in progress, a record whose lab_data_extracted
\* flag is set has an ai_lab_analysis row.
C29_FlagImpliesAnalysis ==
    (\A p \in Procs : ~InProgress(p))
    => \A r \in pdf_records :
           r.lab_data_extracted => RecordRows(ai_lab_analysis, r.id) # {}

\* ---------------------------------------------------------------------
\* The stored analysis
\* ---------------------------------------------------------------------
\* C26: the ai_lab_analysis row that a run stores holds the parsed payload:
\* its summary, its test and measurement arrays, its sub-panels, the overall
\* risk and the recommendations of its risk assessment can be read back from
\* the row, whose kind is "comprehensive" and whose confidence score is 0.9
\* (9 tenths).
C26_RowHoldsPayload ==
    [][\A p \in Procs :
          (AnalyzeStore(p) /\ ai_lab_analysis' # ai_lab_analysis)
          => \E row \in ai_lab_analysis' \ ai_lab_analysis :
                LET payload == proc[p].analysis[1]
                IN  /\ row.analysis_type = "comprehensive"
                    /\ row.confidence_score = 9
                    /\ row.summary = payload.document_summary
                    /\ row.lab_tests = OrEmpty(payload.lab_tests_found)
                    /\ row.medical_measurements = OrEmpty(payload.medical_measurements)
                    /\ row.bloodwork_analysis = OrEmpty(payload.bloodwork_analysis)
                    /\ IsPresent(payload.risk_assessment)
                          => /\ row.risk_level = payload.risk_assessment[1].overall_risk
                             /\ row.recommendations =
                                    payload.risk_assessment[1].recommendations]_vars

\* ---------------------------------------------------------------------
\* GET /api/analyze/:id and the routes below /api/lab-values
\* ---------------------------------------------------------------------
\* C27: GET /api/analyze/:id for a record the caller owns answers with the
\* analysis of the record's text (word count, character count); it answers
\* 404 only when the caller owns no record with that id.
C27_AnalyzeOwnRecord ==
    call.fn = "GET /api/analyze/:id" =>
        LET own == SelectOwnRecord(call.input.id, call.input.user)
        IN  IF own = {} THEN call.output.status = 404
            ELSE LET text == (CHOOSE r \in own : TRUE).extracted_data
                 IN  /\ call.output.status = 200
                     /\ call.output.wordCount = WordCount(text)
                     /\ call.output.characterCount = Len(text)

\* C28: a GET of /api/lab-values/grouped-trends is answered by the
\* grouped-trend handler and a GET of /api/lab-values/test-names by the
\* test-names handler, not by the by-name route registered before them.
C28_OwnHandlerAnswers ==
    /\ call.fn = "GET /api/lab-values/grouped-trends" => call.output.handler = "groupedTrends"
    /\ call.fn = "GET /api/lab-values/test-names" => call.output.handler = "testNames"

\* ---------------------------------------------------------------------
\* DELETE /api/admin/users/:userId
\* ---------------------------------------------------------------------
\* C30: when the delete-user request is answered, either it reports success
\* and the user and every record, measurement and analysis of the user are
\* gone, or it reports an error and it has removed no row; a user id without
\* a row deletes nothing.
C30_DeleteUserAllOrNothing ==
    [][\A p \in Procs :
          ((DeleteUser(p) \/ DeleteUserRecords(p) \/ DeleteUserRow(p)) /\ proc'[p].pc = "done")
          => LET l == proc'[p]
                 uid == l.owner
             IN  IF l.resp.status = 200
                 THEN /\ uid \notin users'
                      /\ UserRows(pdf_records', uid) = {}
                      /\ UserRows(lab_values', uid) = {}
                      /\ UserRows(ai_lab_analysis', uid) = {}
                 ELSE /\ l.removed.lab_values = {}
                      /\ l.removed.pdf_records = {}
                      /\ users' = users]_vars

====
